---- MODULE Spec2Model ----
(***************************************************************************)
(* The checkpointed, concurrency-governed dispatchers of the repository:   *)
(*   - Code/assess_mastery.py  main (manifest, resume, semaphore-bounded   *)
(*     dispatch, real-time batch save, per-student batch save)             *)
(*   - Code/run_experiment.py  create_concurrent_llm_requests (semaphore-  *)
(*     bounded dispatch with a retry loop)                                  *)
(* The event loop is cooperative: the code between two awaits runs as one  *)
(* step.  The awaits are the spread-delay sleep, the semaphore acquire,    *)
(* the remote call and the backoff sleep; batch_lock and lock are never    *)
(* held across an await, so their sections run inside the step that        *)
(* follows the remote call.                                                *)
(***************************************************************************)
EXTENDS Integers, Sequences, FiniteSets, TLC

\* ------------------------------------------------------------------ bounds
MaxTasks == 3            \* rows of the manifest / requests of the pool
MaxConcurrency == 2      \* largest --concurrency value tried
BATCH_SIZE == 2          \* flush threshold (100 in assess_mastery.py:668), scaled
STUDENTS_PER_BATCH == 2  \* students per save (30 in assess_mastery.py:857), scaled
MaxStoreRows == 2        \* rows of an arbitrary results store (SpecResolve)
MaxSpread == 3           \* largest --spread-duration tried, in seconds
batch_size == 2          \* flush threshold (10 in generate_tutoring_content.py:676), scaled
MaxSaveInterval == 2     \* largest --save-interval tried (default 20)
MaxRequests == 2         \* longest request list given to concurrent_user_sys_call_with_retry
MaxRetries == 2          \* longest retry_delays given to it (a prefix of the default)

\* --------------------------------------------------------------- constants
retry_delays == <<5, 10, 30>>
None == "None"
NaN == <<>>      \* a cell read as float NaN (a cell text has at least one piece)
NoText == <<>>   \* a response that is not a str (a text has at least one line)

\* pandas.read_csv default NA tokens: a cell holding one of them reads as NaN
DefaultNAValues ==
  {"", "#N/A", "#N/A N/A", "#NA", "-1.#IND", "-1.#QNAN", "-NaN", "-nan",
   "1.#IND", "1.#QNAN", "<NA>", "N/A", "NA", "NULL", "NaN", "None", "n/a",
   "nan", "null"}

\* ------------------------------------------------------------- task keys
KCsPerStudent == 2
TaskIds == 1..MaxTasks
KeyOf(i) == [student_id |-> ((i - 1) \div KCsPerStudent) + 1,
             kc_name    |-> ((i - 1) % KCsPerStudent) + 1]

\* student_ids is 1..NumStudents, in this order
NumStudents == KeyOf(MaxTasks).student_id

\* generate_request_manifest: one row per (student, practiced kc), in order
ManifestRows == [i \in TaskIds |-> KeyOf(i)]

VARIABLES
  script,          \* "assess" (assess_mastery.py) or "experiment" (run_experiment.py)
  concurrency,     \* args.concurrency / concurrency_limit
  spread_duration, \* args.spread_duration / spread_duration, in seconds
  now,             \* seconds elapsed since the tasks were created
  faults,          \* what the environment may do: fail a "write" of the
                   \* results CSV, "interrupt" the run
  behaviour,       \* what the remote service does for each task, "undecided"
                   \* until it answers the task's first call
  manifest_file,   \* the manifest CSV: [exists, rows]
  results_file,    \* the results CSV: [exists, rows]
  phase,           \* position of main
  resumed,         \* FALSE in the first run, TRUE in the run after it
  all_requests,    \* pending requests of this run
  pc,              \* position of each task coroutine
  attempt,         \* retry-loop index of each task (run_experiment)
  calls,           \* remote calls made by each task in this run
  outcome,         \* value returned by each task coroutine
  sem,             \* asyncio.Semaphore._value
  batch_results,   \* real-time batch buffer
  is_first_batch,
  total_saved,
  completed_count,
  p4,              \* phase-4 loop: [i, student_results_map (its keys)];
                   \* i is also the position of run_experiment's loop over
                   \* student_ids
  kc_pc,           \* generate_tutoring_content: position of the coroutine
                   \* generate_tutoring_for_single_kc of each (student, kc)
  done_pairs,      \* generate_tutoring_content: processed_pairs of main
  on_student_complete_calls, \* run_experiment: the invocations of the
                   \* callback so far, [student_id, student_results]
  save_interval,   \* run_experiment main: args.save_interval
  has_mastery,     \* main: mastery_lookup is loaded and not empty
  has_tutoring,    \* main: tutoring_lookup is loaded and not empty
  experiment_modes,\* main: the modes to run, in order
  mode_pos,        \* main: position of the loop over experiment_modes
  actual_mode,     \* main: the local variable, Unbound until assigned
  results_pkl,     \* the results pickle of each mode: [exists, rows]
  accumulated_results,       \* main: accumulated_results[exp_mode]
  completed_students_count,  \* main: completed_students_count[exp_mode]
  all_experiments_results,   \* main: list of the modes' DataFrames
  retry_delays_arg,\* concurrent_user_sys_call_with_retry: retry_delays
  requests_len,    \* concurrent_user_sys_call_with_retry: len(requests)
  retry_pc,        \* position of concurrent_user_sys_call_with_retry
  retry_attempt,   \* its loop variable attempt
  batch_calls,     \* calls of llm_module.concurrent_user_sys_call so far
  executions,      \* times each request of the list was executed
  retry_results,   \* its local variable results
  slept,           \* the delays it has slept, in order
  last_call,       \* what the latest call of llm_module.concurrent_user_sys_call
                   \* gave: [kind |-> "results", results] or
                   \* [kind |-> "raised", exception]
  returned         \* the list concurrent_user_sys_call_with_retry returned

vars == <<script, concurrency, spread_duration, now, faults, behaviour, manifest_file,
          results_file, phase, resumed, all_requests, pc, attempt,
          calls, outcome, sem, batch_results, is_first_batch, total_saved,
          completed_count, p4, kc_pc, done_pairs, on_student_complete_calls,
          save_interval, has_mastery, has_tutoring, experiment_modes,
          mode_pos, actual_mode, results_pkl, accumulated_results,
          completed_students_count, all_experiments_results,
          retry_delays_arg, requests_len, retry_pc, retry_attempt,
          batch_calls, executions, retry_results, slept,
          last_call, returned>>

\* the state of main of run_experiment
main_vars == <<save_interval, has_mastery, has_tutoring, experiment_modes,
               mode_pos, actual_mode, results_pkl, accumulated_results,
               completed_students_count, all_experiments_results>>

\* the state of concurrent_user_sys_call_with_retry
retry_vars == <<retry_delays_arg, requests_len, retry_pc, retry_attempt,
                batch_calls, executions, retry_results, slept,
          last_call, returned>>

\* ------------------------------------------------------------------ text
\* A response text is a sequence of lines.  A line is [key, val]: key is the
\* field prefix the line starts with ("" when it starts with none) and val the
\* stripped rest of the line.  A field value is a sequence of string pieces,
\* read as their concatenation.
FieldKeys == {"Mastery Level", "Rationale", "Suggestions"}

RECURSIVE ParseLines(_, _, _)
ParseLines(lines, parsed_data, current_key) ==
  IF lines = <<>> THEN parsed_data
  ELSE LET line == Head(lines) IN
       IF line.key \in FieldKeys
       THEN ParseLines(Tail(lines),
                       [parsed_data EXCEPT ![line.key] = <<line.val>>],
                       line.key)
       ELSE IF current_key # None
       THEN ParseLines(Tail(lines),
                       [parsed_data EXCEPT ![current_key] = @ \o <<" ", line.val>>],
                       current_key)
       ELSE ParseLines(Tail(lines), parsed_data, current_key)

parse_llm_response(text) ==
  LET parsed_data == [k \in FieldKeys |-> <<"N/A">>] IN
  IF text = NoText THEN parsed_data
  ELSE ParseLines(text, parsed_data, None)

\* The texts the remote service returns in the model.
TextProficient == <<[key |-> "Mastery Level", val |-> "Proficient"],
                    [key |-> "Rationale", val |-> "steady accuracy"]>>
TextNoFormat   == <<[key |-> "", val |-> "I cannot assess this student"]>>
TextFailed     == <<[key |-> "", val |-> "LLM_CALL_FAILED: error"]>>
TextBlank      == <<[key |-> "", val |-> ""]>>

\* ------------------------------------------------------------------- CSV
\* pandas.read_csv: a cell whose text is a default NA token reads as NaN
ReadCsvCell(cell) ==
  IF \/ (Len(cell) = 1 /\ cell[1] \in DefaultNAValues)
     \/ cell = <<"#N/A", " ", "N/A">>
  THEN NaN ELSE cell

ReadCsv(rows) ==
  [n \in 1..Len(rows) |-> [rows[n] EXCEPT !.mastery_level = ReadCsvCell(@)]]

\* faulty variant: every save opens the file with mode 'w'
save_results_batch_overwrite(file, rows, first, ok) ==
  IF rows = <<>> THEN file
  ELSE IF ~ok THEN file
  ELSE [exists |-> TRUE, rows |-> rows]

\* save_results_batch: append rows to the results CSV, or (re)write it with a
\* header when is_first_batch or when the file is missing.  ok = FALSE is a
\* write that raises: the exception is caught and printed, nothing is written.
save_results_batch(file, rows, first, ok) ==
  IF rows = <<>> THEN file
  ELSE IF ~ok THEN file
  ELSE IF first \/ ~file.exists THEN [exists |-> TRUE, rows |-> rows]
  ELSE [exists |-> TRUE, rows |-> file.rows \o rows]

\* ------------------------------------------------- load_request_manifest
Range(f) == {f[x] : x \in DOMAIN f}
KeyOfRow(row) == [student_id |-> row.student_id, kc_name |-> row.kc_name]

\* completed_df: mastery_level.notna() & (mastery_level != '')
IsCompletedRow(row) == row.mastery_level # NaN /\ row.mastery_level # <<"">>

processed_pairs(file) ==
  IF file.exists
  THEN {KeyOfRow(r) : r \in {x \in Range(ReadCsv(file.rows)) : IsCompletedRow(x)}}
  ELSE {}

\* faulty variant: the pending requests are collected last row first
RECURSIVE PendingFromReversed(_, _, _)
PendingFromReversed(manifest_df, idx, done) ==
  IF idx > Len(manifest_df) THEN <<>>
  ELSE PendingFromReversed(manifest_df, idx + 1, done)
       \o (IF manifest_df[idx] \notin done
           THEN <<[index |-> idx, context |-> manifest_df[idx]]>>
           ELSE <<>>)

RECURSIVE PendingFrom(_, _, _)
PendingFrom(manifest_df, idx, done) ==
  IF idx > Len(manifest_df) THEN <<>>
  ELSE (IF manifest_df[idx] \notin done
        THEN <<[index |-> idx, context |-> manifest_df[idx]]>>
        ELSE <<>>) \o PendingFrom(manifest_df, idx + 1, done)

\* returns [manifest_df, pending_requests]; (None, []) when no manifest
\* exists, and also when reading the manifest or the results raises
\* (ok = FALSE): the exception is caught and printed
load_request_manifest(manifest, file, ok) ==
  IF ~manifest.exists
  THEN [manifest_df |-> None, pending_requests |-> <<>>]
  ELSE IF ~ok
  THEN [manifest_df |-> None, pending_requests |-> <<>>]
  ELSE [manifest_df |-> "loaded",
        pending_requests |-> PendingFrom(manifest.rows, 1, processed_pairs(file))]

\* -------------------------------------------------------- remote service
\* What user_sys_call_with_model does on the n-th call made for a task:
\* returns a text (error = None) or raises (error = the exception text).
RateLimitError == "429 too many requests"
OtherError     == "invalid request payload"

Respond(b, n) ==
  CASE b = "ok"           -> [result |-> TextProficient, error |-> None]
    [] b = "noformat"     -> [result |-> TextNoFormat,   error |-> None]
    [] b = "blank"        -> [result |-> TextBlank,      error |-> None]
    [] b = "rate_always"  -> [result |-> NoText, error |-> RateLimitError]
    [] b = "other_always" -> [result |-> NoText, error |-> OtherError]
    [] b = "rate_once"    -> IF n = 1
                             THEN [result |-> NoText, error |-> RateLimitError]
                             ELSE [result |-> TextProficient, error |-> None]

Behaviours(s) ==
  IF s = "assess" THEN {"ok", "noformat", "other_always"}
  ELSE IF s = "tutoring" THEN {"ok", "blank", "other_always"}
  ELSE {"ok", "rate_always", "other_always", "rate_once"}

\* the behaviours the service may show a task, given what it has shown so far
Decide(s, b) == IF b = "undecided" THEN Behaviours(s) ELSE {b}

NoOutcome == [result |-> NoText, error |-> None]
NoP4 == [i |-> 1, student_results_map |-> {}]
Requests == [i \in TaskIds |-> [index |-> i, context |-> KeyOf(i)]]

\* ------------------------------------------------- run_experiment main
Unbound == "unbound"
Modes == {"baseline", "mastery_only", "tutoring_only", "both"}
NoPickle == [exists |-> FALSE, rows |-> <<>>]

\* the mode of the current pass of the loop over experiment_modes
exp_mode == experiment_modes[mode_pos]

\* main: the actual_mode assigned in the pass of a mode that runs; the mode
\* "both" is downgraded according to the data that could be loaded
ActualModeOf(mode, mastery, tutoring) ==
  IF mode = "both"
  THEN IF ~mastery /\ ~tutoring THEN "baseline"
       ELSE IF mastery /\ ~tutoring THEN "mastery_only"
       ELSE IF ~mastery /\ tutoring THEN "tutoring_only"
       ELSE "both"
  ELSE mode

\* df['experiment_mode'] = label
Labelled(df, label) ==
  [n \in 1..Len(df) |-> [student_id |-> df[n].student_id,
                         question_id |-> df[n].question_id,
                         llm_raw_response |-> df[n].llm_raw_response,
                         experiment_mode |-> label]]

\* save_incremental_results: every save_interval students
IntervalReached(count) == count % save_interval = 0

\* main.save_incremental_results, the callback given to run_experiment: the
\* student's results are added to the accumulated results of the mode, and
\* these are written to the mode's pickle every save_interval students; a
\* failed write (ok = FALSE) is reported and swallowed
save_incremental_results(student_id, student_results, ok) ==
  LET new_df == Labelled(student_results, actual_mode)
      accumulated == IF accumulated_results = <<>> THEN new_df
                     ELSE accumulated_results \o new_df
      count == completed_students_count + 1
  IN /\ accumulated_results' = accumulated
     /\ completed_students_count' = count
     /\ results_pkl' =
          IF IntervalReached(count) /\ ok
          THEN [results_pkl EXCEPT ![exp_mode] =
                                     [exists |-> TRUE, rows |-> accumulated]]
          ELSE results_pkl

\* main of run_experiment is not running
MainIdle ==
  /\ save_interval = 1
  /\ has_mastery = FALSE
  /\ has_tutoring = FALSE
  /\ experiment_modes = <<>>
  /\ mode_pos = 0
  /\ actual_mode = Unbound
  /\ results_pkl = [m \in Modes |-> NoPickle]
  /\ accumulated_results = <<>>
  /\ completed_students_count = 0
  /\ all_experiments_results = <<>>

\* main of run_experiment has set up the pass of the single mode "baseline",
\* for which nothing is stored, and is about to call run_experiment
MainReady ==
  /\ save_interval = 1
  /\ has_mastery = FALSE
  /\ has_tutoring = FALSE
  /\ experiment_modes = <<"baseline">>
  /\ mode_pos = 1
  /\ actual_mode = "baseline"
  /\ results_pkl = [m \in Modes |-> NoPickle]
  /\ accumulated_results = <<>>
  /\ completed_students_count = 0
  /\ all_experiments_results = <<>>

NoCall == [kind |-> "none"]

\* concurrent_user_sys_call_with_retry is not running
RetryIdle ==
  /\ retry_delays_arg = <<>>
  /\ requests_len = 0
  /\ retry_pc = "idle"
  /\ retry_attempt = 0
  /\ batch_calls = 0
  /\ executions = <<>>
  /\ retry_results = <<>>
  /\ slept = <<>>
  /\ last_call = NoCall
  /\ returned = <<>>

\* state of a process of main that has not yet reached the dispatch
Idle ==
  /\ pc = [i \in TaskIds |-> "none"]
  /\ attempt = [i \in TaskIds |-> 0]
  /\ calls = [i \in TaskIds |-> 0]
  /\ outcome = [i \in TaskIds |-> NoOutcome]
  /\ sem = 0
  /\ batch_results = <<>>
  /\ is_first_batch = FALSE
  /\ total_saved = 0
  /\ completed_count = 0
  /\ p4 = NoP4
  /\ kc_pc = [i \in TaskIds |-> "none"]
  /\ done_pairs = {}
  /\ on_student_complete_calls = <<>>

InitEnv(s, f) ==
  /\ script = s
  /\ faults = f
  /\ concurrency \in 0..MaxConcurrency
  /\ spread_duration \in {0, MaxSpread}
  /\ now = 0
  /\ behaviour = [i \in TaskIds |-> "undecided"]
  /\ resumed = FALSE
  /\ Idle
  /\ IF s = "experiment" THEN MainReady ELSE MainIdle
  /\ RetryIdle

\* first run: no manifest, no results file
Init ==
  /\ \E s \in {"assess", "experiment"} : InitEnv(s, {})
  /\ manifest_file = [exists |-> FALSE, rows |-> <<>>]
  /\ results_file = [exists |-> FALSE, rows |-> <<>>]
  /\ phase = IF script = "assess" THEN "start" ELSE "ready"
  /\ all_requests \in IF script = "assess" THEN {<<>>}
                      ELSE {SubSeq(Requests, 1, n) : n \in 1..MaxTasks}

\* ------------------------------------------------------- assess_mastery
\* main, phase 2: load the manifest and resolve the pending requests; with
\* no manifest go on to generate one; with nothing pending the mode is done
LoadManifest ==
  /\ script = "assess"
  /\ phase \in {"start", "reload"}
  /\ \E ok \in IF "read" \in faults THEN BOOLEAN ELSE {TRUE} :
     LET loaded == load_request_manifest(manifest_file, results_file, ok) IN
       /\ all_requests' = loaded.pending_requests
       /\ phase' = IF loaded.manifest_df = None /\ phase = "start" THEN "generate"
                   ELSE IF Len(loaded.pending_requests) = 0 THEN "ended"
                   ELSE "ready"
  /\ UNCHANGED <<main_vars, retry_vars, kc_pc, done_pairs, on_student_complete_calls,
                 script, concurrency, spread_duration, now, faults, behaviour,
                 manifest_file, results_file, resumed, pc, attempt, calls,
                 outcome, sem, batch_results, is_first_batch, total_saved,
                 completed_count, p4>>

\* faulty variant: the write of the manifest is cut short
to_csv_truncated(manifest_records) ==
  [exists |-> TRUE,
   rows |-> SubSeq(manifest_records, 1, Len(manifest_records) - 1)]

\* manifest_df.to_csv(manifest_path): the file holds every manifest record
to_csv(manifest_records) == [exists |-> TRUE, rows |-> manifest_records]

\* generate_request_manifest: build the rows and write the manifest CSV
GenerateManifest ==
  /\ phase = "generate"
  /\ manifest_file' = to_csv(ManifestRows)
  /\ phase' = "reload"
  /\ UNCHANGED <<main_vars, retry_vars, kc_pc, done_pairs, on_student_complete_calls,
                 script, concurrency, spread_duration, now, faults, behaviour,
                 results_file, resumed, all_requests, pc, attempt, calls,
                 outcome, sem, batch_results, is_first_batch, total_saved,
                 completed_count, p4>>

\* ------------------------------------------------------------ dispatch
Tasks == 1..Len(all_requests)
WriteOutcomes == IF "write" \in faults THEN BOOLEAN ELSE {TRUE}

\* faulty variant: the spread delay is not served
StartDelayElapsedAtOnce(i) == TRUE

\* start_delay = i * delay_per_request with delay_per_request =
\* spread_duration / len(requests) and i counted from 0; kept exact by
\* comparing i * spread_duration with now * len(requests).  A delay that is
\* not > 0 is not slept.
HasStartDelay(i) == spread_duration > 0 /\ (i - 1) * spread_duration > 0
StartDelayElapsed(i) == now * Len(all_requests) >= (i - 1) * spread_duration

\* faulty variant: the task enters without waiting for a free slot
CanAcquireUnbounded(value) == TRUE

\* async with semaphore: a task is admitted only while a slot is free
CanAcquire(value) == value > 0

\* faulty variant: the slot is not given back
ReleaseLeaked(value) == value

\* leaving async with semaphore: semaphore.release()
Release(value) == value + 1

\* faulty variant: the slot is given back while the task sleeps
ReleasedInBackoff(value) == value + 1

\* execute_single_request: the retry loop, its asyncio.sleep included, is
\* inside async with semaphore; the semaphore is not touched when a task
\* goes on to its next attempt
HeldInBackoff(value) == value

\* faulty variant: the batch is replaced by the new record (a lost update)
append_overwriting(batch, result_record) == <<result_record>>

\* batch_results.append(result_record), under batch_lock
append(batch, result_record) == Append(batch, result_record)

\* faulty variant: the threshold test is off by one
ReachedBatchSizeStrict(n) == n > BATCH_SIZE

\* len(batch_results) >= BATCH_SIZE
ReachedBatchSize(n) == n >= BATCH_SIZE

\* faulty variant: the loop gives up one attempt early
IsLastAttemptEarly(a) == a = Len(retry_delays) - 1

\* attempt == len(retry_delays): the last pass of range(len(retry_delays) + 1)
IsLastAttempt(a) == a = Len(retry_delays)

\* faulty variant: only a rate-limit error is retried, any other error is final
ReturnsNowClassified(r, a) ==
  r.error = None \/ r.error # "429 too many requests" \/ IsLastAttempt(a)

\* the coroutine returns when the call returned, or raised on the last
\* attempt; any other exception, whatever its class, continues the loop
ReturnsNow(r, a) == r.error = None \/ IsLastAttempt(a)

\* result_record, the columns the resume check reads
ResultRecord(context, raw_resp) ==
  [student_id |-> context.student_id,
   kc_name |-> context.kc_name,
   mastery_level |-> parse_llm_response(raw_resp)["Mastery Level"]]

\* the semaphore, the buffers and the counters are created and every task
\* coroutine is created with its spread delay, i * delay_per_request
CreateTasks ==
  /\ phase = "ready"
  /\ phase' = "dispatch"
  /\ sem' = concurrency
  /\ batch_results' = <<>>
  /\ total_saved' = 0
  /\ completed_count' = 0
  /\ is_first_batch' = IF script \in {"assess", "tutoring"}
                       THEN ~results_file.exists ELSE FALSE
  /\ pc' = [i \in TaskIds |->
              IF i \notin Tasks THEN "none"
              ELSE IF HasStartDelay(i) THEN "sleeping" ELSE "waiting"]
  /\ now' = 0
  /\ UNCHANGED <<main_vars, retry_vars, kc_pc, done_pairs, on_student_complete_calls,
                 script, concurrency, spread_duration, faults, behaviour,
                 manifest_file, results_file, resumed, all_requests, attempt,
                 calls, outcome, p4>>

\* a second passes while a task still sleeps its spread delay
Tick ==
  /\ phase = "dispatch"
  /\ \E i \in Tasks : pc[i] = "sleeping" /\ ~StartDelayElapsed(i)
  /\ now' = now + 1
  /\ UNCHANGED <<main_vars, retry_vars, kc_pc, done_pairs, on_student_complete_calls,
                 script, concurrency, spread_duration, faults, behaviour,
                 manifest_file, results_file, phase, resumed, all_requests,
                 pc, attempt, calls, outcome, sem, batch_results,
                 is_first_batch, total_saved, completed_count, p4>>

\* await asyncio.sleep(delay) returns, not before the delay has elapsed
WakeUp(i) ==
  /\ phase = "dispatch"
  /\ pc[i] = "sleeping"
  /\ StartDelayElapsed(i)
  /\ pc' = [pc EXCEPT ![i] = "waiting"]
  /\ UNCHANGED <<main_vars, retry_vars, kc_pc, done_pairs, on_student_complete_calls,
                 script, concurrency, spread_duration, now, faults, behaviour,
                 manifest_file, results_file, phase, resumed, all_requests,
                 attempt, calls, outcome, sem, batch_results, is_first_batch,
                 total_saved, completed_count, p4>>

\* async with semaphore is entered and the first remote call is issued
Acquire(i) ==
  /\ phase = "dispatch"
  /\ pc[i] = "waiting"
  /\ CanAcquire(sem)
  /\ sem' = sem - 1
  /\ pc' = [pc EXCEPT ![i] = "calling"]
  /\ calls' = [calls EXCEPT ![i] = @ + 1]
  /\ UNCHANGED <<main_vars, retry_vars, kc_pc, done_pairs, on_student_complete_calls,
                 script, concurrency, spread_duration, now, faults, behaviour,
                 manifest_file, results_file, phase, resumed, all_requests,
                 attempt, outcome, batch_results, is_first_batch,
                 total_saved, completed_count, p4>>

\* assess_mastery delayed_request / controlled_request: the remote call
\* returns or raises; the record is appended to the batch under batch_lock
\* and the batch is saved and cleared at BATCH_SIZE; the counter is updated
\* under lock; the coroutine returns and leaves the semaphore
AssessCallReturns(i) ==
  /\ script = "assess"
  /\ phase = "dispatch"
  /\ pc[i] = "calling"
  /\ \E b \in Decide(script, behaviour[all_requests[i].index]) :
     LET r == Respond(b, calls[i])
         raw_resp == IF r.error = None THEN r.result ELSE TextFailed
         appended == append(batch_results,
                            ResultRecord(all_requests[i].context, raw_resp))
     IN /\ behaviour' = [behaviour EXCEPT ![all_requests[i].index] = b]
        /\ IF ReachedBatchSize(Len(appended))
           THEN \E ok \in WriteOutcomes :
                  /\ results_file' = save_results_batch(results_file, appended,
                                                        is_first_batch, ok)
                  /\ total_saved' = total_saved + Len(appended)
                  /\ batch_results' = <<>>
                  /\ is_first_batch' = FALSE
           ELSE /\ batch_results' = appended
                /\ UNCHANGED <<results_file, total_saved, is_first_batch>>
        /\ outcome' = [outcome EXCEPT ![i] = [result |-> raw_resp, error |-> r.error]]
  /\ completed_count' = completed_count + 1
  /\ sem' = Release(sem)
  /\ pc' = [pc EXCEPT ![i] = "done"]
  /\ UNCHANGED <<main_vars, retry_vars, kc_pc, done_pairs, on_student_complete_calls,
                 script, concurrency, spread_duration, now, faults,
                 manifest_file, phase, resumed, all_requests, attempt, calls, p4>>

\* run_experiment execute_single_request: the remote call of the current
\* attempt returns (the task returns its result) or raises (the task
\* returns the error on the last attempt, else goes on to the next attempt)
ExperimentCallReturns(i) ==
  /\ script = "experiment"
  /\ phase = "dispatch"
  /\ pc[i] = "calling"
  /\ \E b \in Decide(script, behaviour[all_requests[i].index]) :
     LET r == Respond(b, calls[i]) IN
       /\ behaviour' = [behaviour EXCEPT ![all_requests[i].index] = b]
       /\ IF ReturnsNow(r, attempt[i])
          THEN /\ outcome' = [outcome EXCEPT ![i] = r]
               /\ pc' = [pc EXCEPT ![i] = "done"]
               /\ sem' = Release(sem)
               /\ UNCHANGED attempt
          ELSE /\ attempt' = [attempt EXCEPT ![i] = @ + 1]
               /\ pc' = [pc EXCEPT ![i] = "backoff"]
               /\ sem' = HeldInBackoff(sem)
               /\ UNCHANGED outcome
  /\ UNCHANGED <<main_vars, retry_vars, kc_pc, done_pairs, on_student_complete_calls,
                 script, concurrency, spread_duration, now, faults,
                 manifest_file, results_file, phase, resumed, all_requests,
                 calls, batch_results, is_first_batch, total_saved,
                 completed_count, p4>>

\* await asyncio.sleep(retry_delays[attempt - 1]) returns and the remote call
\* is issued again, the semaphore still held
BackoffElapses(i) ==
  /\ phase = "dispatch"
  /\ pc[i] = "backoff"
  /\ pc' = [pc EXCEPT ![i] = "calling"]
  /\ calls' = [calls EXCEPT ![i] = @ + 1]
  /\ UNCHANGED <<main_vars, retry_vars, kc_pc, done_pairs, on_student_complete_calls,
                 script, concurrency, spread_duration, now, faults, behaviour,
                 manifest_file, results_file, phase, resumed, all_requests,
                 attempt, outcome, sem, batch_results, is_first_batch,
                 total_saved, completed_count, p4>>

\* faulty variant: gather returns once every task has issued its call
AllAdmitted == \A i \in Tasks : pc[i] \in {"calling", "done"}

\* faulty variant: gather gives up as soon as one task has failed
AllDoneOrOneFailed ==
  \/ \A i \in Tasks : pc[i] = "done"
  \/ \E i \in Tasks : pc[i] = "done" /\ outcome[i].error # None

\* faulty variant: the first task that returns ends the wait
AnyDone == \E i \in Tasks : pc[i] = "done"

\* await asyncio.gather(*tasks, return_exceptions=True): every task returned
AllDone == \A i \in Tasks : pc[i] = "done"

\* run_experiment: asyncio.gather returns; processed_results is built and
\* returned to run_experiment as llm_results
GatherExperiment ==
  /\ script = "experiment"
  /\ phase = "dispatch"
  /\ AllDone
  /\ phase' = "step3"
  /\ p4' = NoP4
  /\ UNCHANGED <<main_vars, retry_vars, kc_pc, done_pairs, on_student_complete_calls,
                 script, concurrency, spread_duration, now, faults, behaviour,
                 manifest_file, results_file, resumed, all_requests, pc,
                 attempt, calls, outcome, sem, batch_results, is_first_batch,
                 total_saved, completed_count>>

\* faulty variant: only the successful outcomes are returned
processed_results_successes ==
  SelectSeq([i \in 1..Len(all_requests) |->
               [index |-> i, result |-> outcome[i].result,
                error |-> outcome[i].error]],
            LAMBDA r : r.error = None)

\* the list create_concurrent_llm_requests returns (llm_results in
\* run_experiment): asyncio.gather gives the tasks' return values in the
\* order of the tasks, each {"index": index, "result": ..., "error": ...}
processed_results ==
  [i \in 1..Len(all_requests) |->
     [index |-> i, result |-> outcome[i].result, error |-> outcome[i].error]]

\* faulty variant: every request of the pool is taken for the student's
RECURSIVE student_request_mapping_all(_, _)
student_request_mapping_all(student_id, i) ==
  IF i > Len(all_requests) THEN <<>>
  ELSE <<i>> \o student_request_mapping_all(student_id, i + 1)

\* student_request_mapping[student_id]: the indices, from i on, of the
\* student's requests in the pool, in the order they were added
RECURSIVE student_request_mapping(_, _)
student_request_mapping(student_id, i) ==
  IF i > Len(all_requests) THEN <<>>
  ELSE (IF all_requests[i].context.student_id = student_id
        THEN <<i>> ELSE <<>>)
       \o student_request_mapping(student_id, i + 1)

\* the entry of student_results built from llm_results[req_idx]
StudentResult(student_id, req_idx) ==
  [student_id |-> student_id,
   question_id |-> all_requests[req_idx].index,
   llm_raw_response |-> IF processed_results[req_idx].error # None
                        THEN TextFailed
                        ELSE processed_results[req_idx].result]

\* run_experiment, step 3, one pass of the loop over student_ids: the
\* student's results are built from llm_results and the callback is invoked
\* when there is at least one
ProcessStudentResults ==
  /\ script = "experiment"
  /\ phase = "step3"
  /\ p4.i <= NumStudents
  /\ LET student_id == p4.i
         request_indices == student_request_mapping(student_id, 1)
         student_results == [n \in 1..Len(request_indices) |->
                               StudentResult(student_id, request_indices[n])]
     IN IF student_results # <<>>
        THEN /\ on_student_complete_calls' =
                  Append(on_student_complete_calls,
                         [student_id |-> student_id,
                          student_results |-> student_results])
             /\ \E ok \in IF "write" \in faults THEN BOOLEAN ELSE {TRUE} :
                  save_incremental_results(student_id, student_results, ok)
        ELSE UNCHANGED <<on_student_complete_calls, accumulated_results,
                         completed_students_count, results_pkl>>
  /\ p4' = [p4 EXCEPT !.i = @ + 1]
  /\ UNCHANGED <<save_interval, has_mastery, has_tutoring, experiment_modes,
                 mode_pos, actual_mode, all_experiments_results,
                 retry_vars, kc_pc, done_pairs, script, concurrency, spread_duration,
                 now, faults, behaviour, manifest_file, results_file, phase,
                 resumed, all_requests, pc, attempt, calls, outcome, sem,
                 batch_results, is_first_batch, total_saved, completed_count>>

\* run_experiment returns the DataFrame of all results
ReturnResults ==
  /\ script = "experiment"
  /\ phase = "step3"
  /\ p4.i > NumStudents
  /\ phase' = "ended"
  /\ UNCHANGED <<main_vars, retry_vars, kc_pc, done_pairs, on_student_complete_calls,
                 script, concurrency, spread_duration, now, faults, behaviour,
                 manifest_file, results_file, resumed, all_requests, pc,
                 attempt, calls, outcome, sem, batch_results, is_first_batch,
                 total_saved, completed_count, p4>>

\* assess_mastery: asyncio.gather returns; the remaining batch is saved and
\* cleared; llm_results is built; phase 4 starts with a fresh batch_results,
\* total_saved, is_first_batch and student_results_map
FinalFlush ==
  /\ script = "assess"
  /\ phase = "dispatch"
  /\ AllDone
  /\ \E ok \in WriteOutcomes :
       /\ results_file' = save_results_batch(results_file, batch_results,
                                             is_first_batch, ok)
       /\ is_first_batch' = ~results_file'.exists
  /\ batch_results' = <<>>
  /\ total_saved' = 0
  /\ p4' = NoP4
  /\ phase' = "phase4"
  /\ UNCHANGED <<main_vars, retry_vars, kc_pc, done_pairs, on_student_complete_calls,
                 script, concurrency, spread_duration, now, faults, behaviour,
                 manifest_file, resumed, all_requests, pc, attempt, calls,
                 outcome, sem, completed_count>>

\* phase 4, one pass of the loop over llm_results: the record is built again
\* from the result, added to batch_results and to its student's group, and
\* the batch is saved once STUDENTS_PER_BATCH students are in the map
ProcessResult ==
  /\ phase = "phase4"
  /\ p4.i <= Len(all_requests)
  /\ LET result == outcome[p4.i]
         context == all_requests[p4.i].context
         raw_resp == IF result.error # None THEN TextFailed ELSE result.result
         appended == Append(batch_results, ResultRecord(context, raw_resp))
         students == p4.student_results_map \cup {context.student_id}
     IN IF Cardinality(students) >= STUDENTS_PER_BATCH
        THEN \E ok \in WriteOutcomes :
               /\ results_file' = save_results_batch(results_file, appended,
                                                     is_first_batch, ok)
               /\ total_saved' = total_saved + Len(appended)
               /\ batch_results' = <<>>
               /\ is_first_batch' = FALSE
               /\ p4' = [i |-> p4.i + 1, student_results_map |-> {}]
        ELSE /\ batch_results' = appended
             /\ p4' = [i |-> p4.i + 1, student_results_map |-> students]
             /\ UNCHANGED <<results_file, total_saved, is_first_batch>>
  /\ UNCHANGED <<main_vars, retry_vars, kc_pc, done_pairs, on_student_complete_calls,
                 script, concurrency, spread_duration, now, faults, behaviour,
                 manifest_file, phase, resumed, all_requests, pc, attempt,
                 calls, outcome, sem, completed_count>>

\* phase 4, after the loop: the remaining batch_results are saved
SaveRemaining ==
  /\ phase = "phase4"
  /\ p4.i > Len(all_requests)
  /\ \E ok \in WriteOutcomes :
       results_file' = save_results_batch(results_file, batch_results,
                                          is_first_batch, ok)
  /\ total_saved' = total_saved + Len(batch_results)
  /\ phase' = "ended"
  /\ UNCHANGED <<main_vars, retry_vars, kc_pc, done_pairs, on_student_complete_calls,
                 script, concurrency, spread_duration, now, faults, behaviour,
                 manifest_file, resumed, all_requests, pc, attempt, calls,
                 outcome, sem, batch_results, is_first_batch,
                 completed_count, p4>>

\* the script is started again on the files the previous run left
Restart ==
  /\ script \in {"assess", "tutoring"}
  /\ phase \in {"ended", "aborted"}
  /\ ~resumed
  /\ resumed' = TRUE
  /\ phase' = "start"
  /\ all_requests' = <<>>
  /\ pc' = [i \in TaskIds |-> "none"]
  /\ attempt' = [i \in TaskIds |-> 0]
  /\ calls' = [i \in TaskIds |-> 0]
  /\ outcome' = [i \in TaskIds |-> NoOutcome]
  /\ sem' = 0
  /\ batch_results' = <<>>
  /\ is_first_batch' = FALSE
  /\ total_saved' = 0
  /\ completed_count' = 0
  /\ p4' = NoP4
  /\ now' = 0
  /\ kc_pc' = [i \in TaskIds |-> "none"]
  /\ done_pairs' = {}
  /\ UNCHANGED <<main_vars, retry_vars, on_student_complete_calls,
                 script, concurrency, spread_duration, faults, behaviour,
                 manifest_file, results_file>>

\* the run is interrupted (KeyboardInterrupt / cancellation) before the
\* manifest is generated, between its generation and the dispatch, or while
\* main awaits asyncio.gather: the task coroutines are cancelled, the
\* exception leaves main, which has no handler, and the process ends
Interrupt ==
  /\ "interrupt" \in faults
  /\ phase \in {"generate", "reload", "ready", "dispatch"}
  /\ phase' = "aborted"
  /\ UNCHANGED <<main_vars, retry_vars, kc_pc, done_pairs, on_student_complete_calls,
                 script, concurrency, spread_duration, now, faults, behaviour,
                 manifest_file, results_file, resumed, all_requests, pc,
                 attempt, calls, outcome, sem, batch_results, is_first_batch,
                 total_saved, completed_count, p4>>

Next ==
  \/ LoadManifest
  \/ GenerateManifest
  \/ CreateTasks
  \/ Tick
  \/ \E i \in TaskIds : WakeUp(i)
  \/ \E i \in TaskIds : Acquire(i)
  \/ \E i \in TaskIds : AssessCallReturns(i)
  \/ \E i \in TaskIds : ExperimentCallReturns(i)
  \/ \E i \in TaskIds : BackoffElapses(i)
  \/ GatherExperiment
  \/ ProcessStudentResults
  \/ ReturnResults
  \/ FinalFlush
  \/ ProcessResult
  \/ SaveRemaining
  \/ Restart

Spec == Init /\ [][Next]_vars

\* The event loop runs every callback that is ready, every sleep ends and
\* every remote call returns or raises: each step that stays possible is
\* eventually taken.
Fairness ==
  /\ WF_vars(LoadManifest)
  /\ WF_vars(GenerateManifest)
  /\ WF_vars(CreateTasks)
  /\ WF_vars(Tick)
  /\ \A i \in TaskIds : WF_vars(WakeUp(i))
  /\ \A i \in TaskIds : WF_vars(Acquire(i))
  /\ \A i \in TaskIds : WF_vars(AssessCallReturns(i))
  /\ \A i \in TaskIds : WF_vars(ExperimentCallReturns(i))
  /\ \A i \in TaskIds : WF_vars(BackoffElapses(i))
  /\ WF_vars(GatherExperiment)
  /\ WF_vars(ProcessStudentResults)
  /\ WF_vars(ReturnResults)
  /\ WF_vars(FinalFlush)
  /\ WF_vars(ProcessResult)
  /\ WF_vars(SaveRemaining)

SpecLive == Init /\ [][Next]_vars /\ Fairness

\* the steps of assess_mastery alone
AssessNext ==
  \/ LoadManifest
  \/ GenerateManifest
  \/ CreateTasks
  \/ Tick
  \/ \E i \in TaskIds : WakeUp(i)
  \/ \E i \in TaskIds : Acquire(i)
  \/ \E i \in TaskIds : AssessCallReturns(i)
  \/ FinalFlush
  \/ ProcessResult
  \/ SaveRemaining
  \/ Restart

\* assess_mastery where a write of the results CSV may raise
InitWriteFaults ==
  /\ InitEnv("assess", {"write"})
  /\ manifest_file = [exists |-> FALSE, rows |-> <<>>]
  /\ results_file = [exists |-> FALSE, rows |-> <<>>]
  /\ phase = "start"
  /\ all_requests = <<>>

SpecWriteFaults == InitWriteFaults /\ [][AssessNext]_vars

\* assess_mastery where the run may be interrupted during the dispatch
InitInterrupt ==
  /\ InitEnv("assess", {"interrupt"})
  /\ manifest_file = [exists |-> FALSE, rows |-> <<>>]
  /\ results_file = [exists |-> FALSE, rows |-> <<>>]
  /\ phase = "start"
  /\ all_requests = <<>>

NextInterrupt == AssessNext \/ Interrupt

SpecInterrupt == InitInterrupt /\ [][NextInterrupt]_vars

\* assess_mastery where reading the manifest or the results CSV may raise
InitReadFaults ==
  /\ InitEnv("assess", {"read"})
  /\ manifest_file = [exists |-> FALSE, rows |-> <<>>]
  /\ results_file = [exists |-> FALSE, rows |-> <<>>]
  /\ phase = "start"
  /\ all_requests = <<>>

SpecReadFaults == InitReadFaults /\ [][AssessNext]_vars

\* load_request_manifest applied to an existing manifest and an arbitrary
\* results CSV left by earlier runs
StoreCells == {<<"Proficient">>, <<"N/A">>, <<"">>}
StoreKeys == Range(ManifestRows) \cup {KeyOf(MaxTasks + 1)}
StoreRecords == {[student_id |-> k.student_id, kc_name |-> k.kc_name,
                  mastery_level |-> c] : k \in StoreKeys, c \in StoreCells}
StoreRowsOfLen(n) == [1..n -> StoreRecords]

InitResolve ==
  /\ script = "assess"
  /\ faults = {}
  /\ concurrency = MaxConcurrency
  /\ spread_duration = 0
  /\ now = 0
  /\ behaviour = [i \in TaskIds |-> "undecided"]
  /\ resumed = FALSE
  /\ Idle
  /\ MainIdle
  /\ RetryIdle
  /\ manifest_file = [exists |-> TRUE, rows |-> ManifestRows]
  /\ \/ results_file = [exists |-> FALSE, rows |-> <<>>]
     \/ \E n \in 1..MaxStoreRows : \E rows \in StoreRowsOfLen(n) :
          results_file = [exists |-> TRUE, rows |-> rows]
  /\ phase = "start"
  /\ all_requests = <<>>

SpecResolve == InitResolve /\ [][LoadManifest]_vars

\* ---------------------------------------------- generate_tutoring_content
\* The tasks of the dispatch are the pending students: pc, Tasks and the
\* spread delays are those of the students, in the order of
\* pending_students (held in all_requests); sem is the semaphore of main;
\* batch_results is all_results.  behaviour, calls, outcome and kc_pc are
\* per (student, kc): index i stands for the pair KeyOf(i).
\* student_weak_kcs_map[student_id], as the indices of its pairs
weak_kcs(student_id) == {i \in TaskIds : KeyOf(i).student_id = student_id}

\* processed_pairs of main: the (student_id, kc_name) of every row of the
\* existing results CSV
tutoring_processed_pairs(file) ==
  IF file.exists THEN {KeyOfRow(r) : r \in Range(file.rows)} ELSE {}

\* the kcs generate_tutoring_for_student generates for a student
missing_kcs(student_id, pairs) ==
  {i \in weak_kcs(student_id) : KeyOf(i) \notin pairs}

RECURSIVE PendingStudentsFrom(_, _)
PendingStudentsFrom(student_id, pairs) ==
  IF student_id > NumStudents THEN <<>>
  ELSE (IF missing_kcs(student_id, pairs) # {} THEN <<student_id>> ELSE <<>>)
       \o PendingStudentsFrom(student_id + 1, pairs)

pending_students(pairs) == PendingStudentsFrom(1, pairs)

\* raw_resp.strip(): leading and trailing blank lines are dropped; the
\* value is '' when nothing is left
IsBlankLine(line) == line.key = "" /\ line.val = ""

RECURSIVE StripLeft(_)
StripLeft(text) ==
  IF text = <<>> THEN <<>>
  ELSE IF IsBlankLine(Head(text)) THEN StripLeft(Tail(text)) ELSE text

RECURSIVE StripRight(_)
StripRight(text) ==
  IF text = <<>> THEN <<>>
  ELSE IF IsBlankLine(text[Len(text)])
       THEN StripRight(SubSeq(text, 1, Len(text) - 1)) ELSE text

RECURSIVE JoinLines(_)
JoinLines(text) ==
  IF text = <<>> THEN <<>>
  ELSE (IF Head(text).key = "" THEN <<Head(text).val>>
        ELSE <<Head(text).key, ": ", Head(text).val>>)
       \o (IF Tail(text) = <<>> THEN <<>> ELSE <<"\n">> \o JoinLines(Tail(text)))

Strip(text) ==
  LET stripped == StripRight(StripLeft(text)) IN
  IF stripped = <<>> THEN <<"">> ELSE JoinLines(stripped)

\* the record generate_tutoring_for_single_kc returns for pair i
TutoringRecord(i, result) ==
  [student_id |-> KeyOf(i).student_id,
   kc_name |-> KeyOf(i).kc_name,
   tutoring_content |-> IF result.error = None THEN Strip(result.result)
                        ELSE <<"">>]

\* results of generate_tutoring_for_student: the records of the student's
\* generated kcs, in the order of weak_kcs
RECURSIVE StudentResultsFrom(_, _)
StudentResultsFrom(i, student_id) ==
  IF i > MaxTasks THEN <<>>
  ELSE (IF i \in weak_kcs(student_id) /\ kc_pc[i] = "returned"
        THEN <<TutoringRecord(i, outcome[i])>> ELSE <<>>)
       \o StudentResultsFrom(i + 1, student_id)

\* main: read the existing results, compute processed_pairs and the
\* students that still miss a pair; return at once when there is none
TutoringResolve ==
  /\ script = "tutoring"
  /\ phase = "start"
  /\ LET pairs == tutoring_processed_pairs(results_file)
         pending == pending_students(pairs)
     IN /\ done_pairs' = pairs
        /\ all_requests' = [n \in 1..Len(pending) |->
                              [index |-> n,
                               context |-> [student_id |-> pending[n]]]]
        /\ phase' = IF pending = <<>> THEN "ended" ELSE "ready"
  /\ UNCHANGED <<main_vars, retry_vars, kc_pc, on_student_complete_calls, script, concurrency,
                 spread_duration, now, faults, behaviour, manifest_file,
                 results_file, resumed, pc, attempt, calls, outcome, sem,
                 batch_results, is_first_batch, total_saved,
                 completed_count, p4>>

\* process_student_with_delay enters async with semaphore and
\* generate_tutoring_for_student starts one generate_tutoring_for_single_kc
\* per missing kc of the student with asyncio.gather; each issues its call
TutoringAcquire(i) ==
  /\ script = "tutoring"
  /\ phase = "dispatch"
  /\ pc[i] = "waiting"
  /\ CanAcquire(sem)
  /\ sem' = sem - 1
  /\ pc' = [pc EXCEPT ![i] = "calling"]
  /\ LET started == missing_kcs(all_requests[i].context.student_id, done_pairs)
     IN /\ kc_pc' = [k \in TaskIds |-> IF k \in started THEN "calling" ELSE kc_pc[k]]
        /\ calls' = [k \in TaskIds |-> IF k \in started THEN calls[k] + 1 ELSE calls[k]]
  /\ UNCHANGED <<main_vars, retry_vars, done_pairs, on_student_complete_calls, script, concurrency,
                 spread_duration, now, faults, behaviour, manifest_file,
                 results_file, phase, resumed, all_requests, attempt,
                 outcome, batch_results, is_first_batch, total_saved,
                 completed_count, p4>>

\* generate_tutoring_for_single_kc: the remote call returns or raises and
\* the coroutine returns its record
KcCallReturns(k) ==
  /\ script = "tutoring"
  /\ phase = "dispatch"
  /\ kc_pc[k] = "calling"
  /\ \E b \in Decide(script, behaviour[k]) :
     LET r == Respond(b, calls[k]) IN
       /\ behaviour' = [behaviour EXCEPT ![k] = b]
       /\ outcome' = [outcome EXCEPT ![k] =
                        IF r.error = None THEN r
                        ELSE [result |-> TextFailed, error |-> r.error]]
  /\ kc_pc' = [kc_pc EXCEPT ![k] = "returned"]
  /\ UNCHANGED <<main_vars, retry_vars, done_pairs, on_student_complete_calls, script, concurrency,
                 spread_duration, now, faults, manifest_file, results_file,
                 phase, resumed, all_requests, pc, attempt, calls, sem,
                 batch_results, is_first_batch, total_saved,
                 completed_count, p4>>

\* asyncio.gather of the student's kcs returns; process_student_with_delay
\* returns (student_id, results, None) and leaves the semaphore
StudentReturns(i) ==
  /\ script = "tutoring"
  /\ phase = "dispatch"
  /\ pc[i] = "calling"
  /\ \A k \in weak_kcs(all_requests[i].context.student_id) : kc_pc[k] # "calling"
  /\ sem' = Release(sem)
  /\ pc' = [pc EXCEPT ![i] = "returned"]
  /\ UNCHANGED <<main_vars, retry_vars, kc_pc, done_pairs, on_student_complete_calls, script,
                 concurrency, spread_duration, now, faults, behaviour,
                 manifest_file, results_file, phase, resumed, all_requests,
                 attempt, calls, outcome, batch_results, is_first_batch,
                 total_saved, completed_count, p4>>

\* main, one pass of the loop over asyncio.as_completed: the student's
\* results are added to all_results, which is saved and replaced by an
\* empty list once it holds batch_size records or more
AsCompleted(i) ==
  /\ script = "tutoring"
  /\ phase = "dispatch"
  /\ pc[i] = "returned"
  /\ pc' = [pc EXCEPT ![i] = "done"]
  /\ completed_count' = completed_count + 1
  /\ LET results == StudentResultsFrom(1, all_requests[i].context.student_id)
         extended == batch_results \o results
     IN IF Len(extended) >= batch_size
        THEN \E ok \in WriteOutcomes :
               /\ results_file' = save_results_batch(results_file, extended,
                                                     is_first_batch, ok)
               /\ batch_results' = <<>>
               /\ is_first_batch' = FALSE
        ELSE /\ batch_results' = extended
             /\ UNCHANGED <<results_file, is_first_batch>>
  /\ UNCHANGED <<main_vars, retry_vars, kc_pc, done_pairs, on_student_complete_calls, script,
                 concurrency, spread_duration, now, faults, behaviour,
                 manifest_file, phase, resumed, all_requests, attempt,
                 calls, outcome, sem, total_saved, p4>>

\* main, after the loop: the remaining all_results are saved
TutoringSaveRemaining ==
  /\ script = "tutoring"
  /\ phase = "dispatch"
  /\ AllDone
  /\ \E ok \in WriteOutcomes :
       results_file' = save_results_batch(results_file, batch_results,
                                          is_first_batch, ok)
  /\ phase' = "ended"
  /\ UNCHANGED <<main_vars, retry_vars, kc_pc, done_pairs, on_student_complete_calls, script,
                 concurrency, spread_duration, now, faults, behaviour,
                 manifest_file, resumed, all_requests, pc, attempt, calls,
                 outcome, sem, batch_results, is_first_batch, total_saved,
                 completed_count, p4>>

TutoringNext ==
  \/ TutoringResolve
  \/ CreateTasks
  \/ Tick
  \/ \E i \in TaskIds : WakeUp(i)
  \/ \E i \in TaskIds : TutoringAcquire(i)
  \/ \E k \in TaskIds : KcCallReturns(k)
  \/ \E i \in TaskIds : StudentReturns(i)
  \/ \E i \in TaskIds : AsCompleted(i)
  \/ TutoringSaveRemaining
  \/ Restart

\* first run of generate_tutoring_content: no results file
InitTutoring ==
  /\ InitEnv("tutoring", {})
  /\ manifest_file = [exists |-> FALSE, rows |-> <<>>]
  /\ results_file = [exists |-> FALSE, rows |-> <<>>]
  /\ phase = "start"
  /\ all_requests = <<>>

SpecTutoring == InitTutoring /\ [][TutoringNext]_vars

\* the two scripts that keep a results CSV, first run and the run after it
InitStore ==
  /\ \E s \in {"assess", "tutoring"} : InitEnv(s, {})
  /\ manifest_file = [exists |-> FALSE, rows |-> <<>>]
  /\ results_file = [exists |-> FALSE, rows |-> <<>>]
  /\ phase = "start"
  /\ all_requests = <<>>

StoreNext == AssessNext \/ TutoringNext

SpecStore == InitStore /\ [][StoreNext]_vars

\* the two scripts that keep a results CSV, where the run may be interrupted
InitStoreInterrupt ==
  /\ \E s \in {"assess", "tutoring"} : InitEnv(s, {"interrupt"})
  /\ manifest_file = [exists |-> FALSE, rows |-> <<>>]
  /\ results_file = [exists |-> FALSE, rows |-> <<>>]
  /\ phase = "start"
  /\ all_requests = <<>>

SpecStoreInterrupt == InitStoreInterrupt /\ [][StoreNext \/ Interrupt]_vars

\* ------------------------------------------ run_experiment, interrupted
\* what an earlier run stored for a mode: the results of a selected student
\* that is not among the remaining ones
StoredResults(mode) ==
  <<[student_id |-> NumStudents + 1, question_id |-> 1,
     llm_raw_response |-> TextProficient, experiment_mode |-> mode]>>

\* the steps of run_experiment for one mode
ExperimentNext ==
  \/ CreateTasks
  \/ Tick
  \/ \E i \in TaskIds : WakeUp(i)
  \/ \E i \in TaskIds : Acquire(i)
  \/ \E i \in TaskIds : ExperimentCallReturns(i)
  \/ \E i \in TaskIds : BackoffElapses(i)
  \/ GatherExperiment
  \/ ProcessStudentResults
  \/ ReturnResults

\* main has set up the pass of the mode "baseline", for which an earlier run
\* may have stored results, and is about to call run_experiment for the
\* remaining students; the run may be interrupted
InitExperimentInterrupt ==
  /\ script = "experiment"
  /\ faults = {"interrupt"}
  /\ concurrency \in 0..MaxConcurrency
  /\ spread_duration \in {0, MaxSpread}
  /\ now = 0
  /\ behaviour = [i \in TaskIds |-> "undecided"]
  /\ resumed = FALSE
  /\ Idle
  /\ RetryIdle
  /\ manifest_file = [exists |-> FALSE, rows |-> <<>>]
  /\ results_file = [exists |-> FALSE, rows |-> <<>>]
  /\ phase = "ready"
  /\ all_requests \in {SubSeq(Requests, 1, n) : n \in 1..MaxTasks}
  /\ save_interval \in 1..MaxSaveInterval
  /\ has_mastery = FALSE
  /\ has_tutoring = FALSE
  /\ experiment_modes = <<"baseline">>
  /\ mode_pos = 1
  /\ actual_mode = "baseline"
  /\ \E stored \in BOOLEAN :
       /\ results_pkl =
            [m \in Modes |->
               IF stored /\ m = "baseline"
               THEN [exists |-> TRUE, rows |-> StoredResults(m)]
               ELSE NoPickle]
       /\ accumulated_results =
            IF stored THEN StoredResults("baseline") ELSE <<>>
       /\ completed_students_count = IF stored THEN 1 ELSE 0
  /\ all_experiments_results = <<>>

SpecExperimentInterrupt ==
  InitExperimentInterrupt /\ [][ExperimentNext \/ Interrupt]_vars

\* ------------------------------------- run_experiment main, mode loop
\* the modes of --experiment-mode ("all" gives the four of them) that are
\* left once the data is loaded: mastery_only needs the mastery data,
\* tutoring_only both data; "both" stays and is downgraded in its pass
AllModes == <<"baseline", "mastery_only", "tutoring_only", "both">>
RequestedModes == {AllModes} \cup {<<AllModes[n]>> : n \in 1..Len(AllModes)}
experiment_modes_of(requested, mastery, tutoring) ==
  SelectSeq(requested,
            LAMBDA m : /\ (m = "mastery_only" => mastery)
                       /\ (m = "tutoring_only" => (mastery /\ tutoring)))

\* what an earlier run stored for a mode when it completed the students
\* 1..n of student_ids
StoredFor(mode, n) ==
  [s \in 1..n |-> [student_id |-> s, question_id |-> 1,
                   llm_raw_response |-> TextProficient,
                   experiment_mode |-> mode]]

\* existing_results_df of the current pass (None when there is no pickle)
existing_results_df == results_pkl[exp_mode]

\* completed_student_ids
completed_student_ids ==
  IF existing_results_df.exists
  THEN {existing_results_df.rows[n].student_id :
          n \in 1..Len(existing_results_df.rows)}
  ELSE {}

\* remaining_student_ids, in the order of student_ids
remaining_student_ids ==
  SelectSeq([s \in 1..NumStudents |-> s],
            LAMBDA sid : sid \notin completed_student_ids)

\* the DataFrame run_experiment returns when the students in done got
\* results and the others failed in preparation
ResultsOf(done) ==
  LET students == SelectSeq(remaining_student_ids, LAMBDA sid : sid \in done)
  IN [n \in 1..Len(students) |->
        [student_id |-> students[n], question_id |-> 1,
         llm_raw_response |-> TextProficient]]

\* one pass of the loop for a mode with nothing remaining to run: the
\* stored results are labelled with actual_mode and added to the combined
\* results; reading actual_mode before any pass assigned it raises
\* UnboundLocalError, which leaves main
SkipMode ==
  /\ script = "experiment"
  /\ phase = "modes"
  /\ mode_pos <= Len(experiment_modes)
  /\ remaining_student_ids = <<>>
  /\ IF ~existing_results_df.exists
     THEN /\ mode_pos' = mode_pos + 1
          /\ UNCHANGED <<phase, all_experiments_results>>
     ELSE IF actual_mode = Unbound
     THEN /\ phase' = "crashed"
          /\ UNCHANGED <<mode_pos, all_experiments_results>>
     ELSE /\ all_experiments_results' =
               Append(all_experiments_results,
                      Labelled(existing_results_df.rows, actual_mode))
          /\ mode_pos' = mode_pos + 1
          /\ UNCHANGED phase
  /\ UNCHANGED <<save_interval, has_mastery, has_tutoring, experiment_modes,
                 actual_mode, results_pkl, accumulated_results,
                 completed_students_count, retry_vars,
                 kc_pc, done_pairs, on_student_complete_calls,
                 script, concurrency, spread_duration, now, faults, behaviour,
                 manifest_file, results_file, resumed, all_requests,
                 pc, attempt, calls, outcome, sem, batch_results,
                 is_first_batch, total_saved, completed_count, p4>>

\* one pass of the loop for a mode with students remaining: actual_mode is
\* assigned, run_experiment is awaited for the remaining students and
\* returns the results of those it could run, which are labelled, merged
\* with the stored ones, saved to the mode's pickle and added to the
\* combined results
RunMode ==
  /\ script = "experiment"
  /\ phase = "modes"
  /\ mode_pos <= Len(experiment_modes)
  /\ remaining_student_ids # <<>>
  /\ actual_mode' = ActualModeOf(exp_mode, has_mastery, has_tutoring)
  /\ \E done \in SUBSET Range(remaining_student_ids) :
       LET results == Labelled(ResultsOf(done), actual_mode')
           final_results == IF existing_results_df.exists
                            THEN existing_results_df.rows \o results
                            ELSE results
       IN /\ accumulated_results' = final_results
          /\ completed_students_count' =
               Cardinality(completed_student_ids) + Cardinality(done)
          /\ results_pkl' = [results_pkl EXCEPT ![exp_mode] =
                               [exists |-> TRUE, rows |-> final_results]]
          /\ all_experiments_results' =
               Append(all_experiments_results, final_results)
  /\ mode_pos' = mode_pos + 1
  /\ UNCHANGED <<save_interval, has_mastery, has_tutoring, experiment_modes,
                 retry_vars, kc_pc, done_pairs, on_student_complete_calls,
                 script, concurrency, spread_duration, now, faults, behaviour,
                 manifest_file, results_file, phase, resumed, all_requests,
                 pc, attempt, calls, outcome, sem, batch_results,
                 is_first_batch, total_saved, completed_count, p4>>

\* after the loop: pd.concat(all_experiments_results), which raises
\* ValueError for an empty list
CombineResults ==
  /\ script = "experiment"
  /\ phase = "modes"
  /\ mode_pos > Len(experiment_modes)
  /\ phase' = IF all_experiments_results = <<>> THEN "crashed" ELSE "combined"
  /\ UNCHANGED <<main_vars, retry_vars,
                 kc_pc, done_pairs, on_student_complete_calls,
                 script, concurrency, spread_duration, now, faults, behaviour,
                 manifest_file, results_file, resumed, all_requests,
                 pc, attempt, calls, outcome, sem, batch_results,
                 is_first_batch, total_saved, completed_count, p4>>

ModesNext == SkipMode \/ RunMode \/ CombineResults

\* main reaches the loop over the modes; earlier runs (resumption is on by
\* default) may have stored, for each mode, the results of the first
\* students of student_ids or of all of them
InitModes ==
  /\ script = "experiment"
  /\ faults = {}
  /\ concurrency = MaxConcurrency
  /\ spread_duration = 0
  /\ now = 0
  /\ behaviour = [i \in TaskIds |-> "undecided"]
  /\ resumed = FALSE
  /\ Idle
  /\ RetryIdle
  /\ manifest_file = [exists |-> FALSE, rows |-> <<>>]
  /\ results_file = [exists |-> FALSE, rows |-> <<>>]
  /\ phase = "modes"
  /\ all_requests = <<>>
  /\ save_interval = 1
  /\ has_mastery \in BOOLEAN
  /\ has_tutoring \in BOOLEAN
  /\ has_tutoring => has_mastery
  /\ \E requested \in RequestedModes :
       experiment_modes =
         experiment_modes_of(requested, has_mastery, has_tutoring)
  /\ mode_pos = 1
  /\ actual_mode = Unbound
  /\ \E stored \in [Modes -> 0..NumStudents] :
       results_pkl =
         [m \in Modes |->
            IF stored[m] = 0 \/ \A n \in 1..Len(experiment_modes) :
                                  experiment_modes[n] # m
            THEN NoPickle
            ELSE [exists |-> TRUE, rows |-> StoredFor(m, stored[m])]]
  /\ accumulated_results = <<>>
  /\ completed_students_count = 0
  /\ all_experiments_results = <<>>

SpecModes == InitModes /\ [][ModesNext]_vars

\* ------------------------------------ concurrent_user_sys_call_with_retry
\* An error message is a sequence of pieces, read as their concatenation.
Msg429 == <<"Error code: ", "429">>
MsgRateLimit == <<"Rate limit", " reached">>
MsgTooMany == <<"Too Many Requests">>
MsgTimeout == <<"Request timed out">>
Messages == {Msg429, MsgRateLimit, MsgTooMany, MsgTimeout}
NoError == <<>>   \* an error that is None, or missing (a message has a piece)

\* str.lower() of a piece
LowerPiece(piece) ==
  CASE piece = "Error code: " -> "error code: "
    [] piece = "Rate limit" -> "rate limit"
    [] piece = " reached" -> " reached"
    [] piece = "Too Many Requests" -> "too many requests"
    [] piece = "Request timed out" -> "request timed out"
    [] OTHER -> piece

\* str(error).lower()
Lower(msg) == [n \in 1..Len(msg) |-> LowerPiece(msg[n])]

\* pattern in error_msg
Contains(msg, pattern) == \E n \in 1..Len(msg) : msg[n] = pattern

\* faulty variant: only the status code is looked for
has_rate_limit_error_code_only(results) ==
  \E n \in 1..Len(results) :
    /\ results[n].error # NoError
    /\ Contains(Lower(results[n].error), "429")

\* the scan of the results of an attempt for a rate-limit error
has_rate_limit_error(results) ==
  \E n \in 1..Len(results) :
    /\ results[n].error # NoError
    /\ LET error_msg == Lower(results[n].error)
       IN \/ Contains(error_msg, "429")
          \/ Contains(error_msg, "rate limit")
          \/ Contains(error_msg, "too many requests")

\* except (RateLimitError, APIError) as e, with a rate-limit message
IsRateLimitException(e) ==
  /\ e.class \in {"RateLimitError", "APIError"}
  /\ LET error_msg == Lower(e.msg)
     IN Contains(error_msg, "429") \/ Contains(error_msg, "rate limit")

\* attempt < max_retries
RetriesRemain == retry_attempt < Len(retry_delays_arg)

\* the results llm_module.concurrent_user_sys_call may return for a list of
\* n requests: one per request, with an error message or none
ResultLists(n) ==
  [1..n -> {[error |-> e] : e \in {NoError} \cup Messages}]

\* the exceptions it may raise
Exceptions ==
  {[class |-> c, msg |-> m] :
     c \in {"RateLimitError", "APIError", "Exception"}, m \in Messages}

\* one pass of the loop up to its sleep, return or raise, when the batch
\* call returns: the whole list of requests is given to
\* llm_module.concurrent_user_sys_call; its results are returned unless one
\* carries a rate-limit error and retries remain
BatchCallReturns ==
  /\ script = "llm_utils"
  /\ retry_pc = "calling"
  /\ \E results \in ResultLists(requests_len) :
       /\ last_call' = [kind |-> "results", results |-> results]
       /\ retry_results' = results
       /\ IF ~has_rate_limit_error(results) \/ ~RetriesRemain
          THEN /\ retry_pc' = "returned"
               /\ returned' = results
          ELSE /\ retry_pc' = "sleeping"
               /\ UNCHANGED returned
  /\ batch_calls' = batch_calls + 1
  /\ executions' = [r \in 1..requests_len |-> executions[r] + 1]
  /\ UNCHANGED <<main_vars, retry_delays_arg, requests_len, retry_attempt,
                 slept, kc_pc, done_pairs, on_student_complete_calls,
                 script, concurrency, spread_duration, now, faults, behaviour,
                 manifest_file, results_file, phase, resumed, all_requests,
                 pc, attempt, calls, outcome, sem, batch_results,
                 is_first_batch, total_saved, completed_count, p4>>

\* one pass of the loop when the batch call raises: a RateLimitError or an
\* APIError with a rate-limit message is slept on while retries remain; any
\* other exception, and that one on the last attempt, is raised again
BatchCallRaises ==
  /\ script = "llm_utils"
  /\ retry_pc = "calling"
  /\ \E e \in Exceptions :
       /\ last_call' = [kind |-> "raised", exception |-> e]
       /\ retry_pc' = IF IsRateLimitException(e) /\ RetriesRemain
                      THEN "sleeping" ELSE "raised"
  /\ batch_calls' = batch_calls + 1
  /\ executions' = [r \in 1..requests_len |-> executions[r] + 1]
  /\ UNCHANGED <<main_vars, retry_delays_arg, requests_len, retry_attempt,
                 retry_results, slept, returned,
                 kc_pc, done_pairs, on_student_complete_calls,
                 script, concurrency, spread_duration, now, faults, behaviour,
                 manifest_file, results_file, phase, resumed, all_requests,
                 pc, attempt, calls, outcome, sem, batch_results,
                 is_first_batch, total_saved, completed_count, p4>>

\* await asyncio.sleep(retry_delays[attempt]) returns and the next pass of
\* the loop begins
SleepElapses ==
  /\ script = "llm_utils"
  /\ retry_pc = "sleeping"
  /\ slept' = Append(slept, retry_delays_arg[retry_attempt + 1])
  /\ retry_attempt' = retry_attempt + 1
  /\ retry_pc' = "calling"
  /\ UNCHANGED <<main_vars, retry_delays_arg, requests_len, batch_calls,
                 executions, retry_results, last_call, returned,
                 kc_pc, done_pairs, on_student_complete_calls,
                 script, concurrency, spread_duration, now, faults, behaviour,
                 manifest_file, results_file, phase, resumed, all_requests,
                 pc, attempt, calls, outcome, sem, batch_results,
                 is_first_batch, total_saved, completed_count, p4>>

RetryNext == BatchCallReturns \/ BatchCallRaises \/ SleepElapses

\* concurrent_user_sys_call_with_retry is called with a list of requests
\* and a list of delays
InitRetry ==
  /\ script = "llm_utils"
  /\ faults = {}
  /\ concurrency = MaxConcurrency
  /\ spread_duration = 0
  /\ now = 0
  /\ behaviour = [i \in TaskIds |-> "undecided"]
  /\ resumed = FALSE
  /\ Idle
  /\ MainIdle
  /\ manifest_file = [exists |-> FALSE, rows |-> <<>>]
  /\ results_file = [exists |-> FALSE, rows |-> <<>>]
  /\ phase = "start"
  /\ all_requests = <<>>
  /\ retry_delays_arg \in {SubSeq(retry_delays, 1, n) : n \in 0..MaxRetries}
  /\ requests_len \in 0..MaxRequests
  /\ retry_pc = "calling"
  /\ retry_attempt = 0
  /\ batch_calls = 0
  /\ executions = [r \in 1..requests_len |-> 0]
  /\ retry_results = <<>>
  /\ slept = <<>>
  /\ last_call = NoCall
  /\ returned = <<>>

SpecRetry == InitRetry /\ [][RetryNext]_vars

\* ------------------------------------------------------------- claims
Admitted(i) == pc[i] \in {"calling", "backoff"}
Index(i) == all_requests[i].index
PendingKeys == {all_requests[n].context : n \in 1..Len(all_requests)}
NoCallMade == \A i \in TaskIds : calls[i] = 0
RowKeys(rows) == {KeyOfRow(rows[n]) : n \in 1..Len(rows)}
DistinctKeys(rows) ==
  \A m, n \in 1..Len(rows) : KeyOfRow(rows[m]) = KeyOfRow(rows[n]) => m = n

\* C1: in both dispatchers the number of tasks inside the semaphore-guarded
\* section (making or awaiting a remote call, or sleeping in backoff there)
\* never exceeds the concurrency limit.
C1_ConcurrencyBound ==
  Cardinality({i \in TaskIds : Admitted(i)}) <= concurrency

\* every slot is held while another task waits for one
C1_Witness ==
  /\ concurrency = MaxConcurrency
  /\ Cardinality({i \in TaskIds : Admitted(i)}) = concurrency
  /\ \E i \in TaskIds : pc[i] = "waiting"

\* C2: load_request_manifest returns as pending exactly the manifest rows
\* whose key is absent from the results store or present only with a blank
\* mastery_level; never a key that has a non-blank record in the store.
IsBlankCell(cell) == cell = <<"">>
HasNonBlankRecord(k) ==
  \E n \in 1..Len(results_file.rows) :
    /\ KeyOfRow(results_file.rows[n]) = k
    /\ ~IsBlankCell(results_file.rows[n].mastery_level)
C2_PendingExact ==
  phase \in {"ready", "ended"} =>
    PendingKeys = {k \in Range(manifest_file.rows) : ~HasNonBlankRecord(k)}

\* C3: after a complete run, a second run on the same manifest and the
\* resulting results store dispatches no remote call.
C3_ResumeIdempotent == resumed => NoCallMade

\* C4: one run over n tasks from an empty store with every call succeeding
\* leaves exactly n rows, one per composite key, and makes no retry.
AllCallsSucceeded ==
  \A i \in TaskIds : behaviour[i] = "ok" /\ calls[i] = 1
C4_OneRowPerKey ==
  (script = "assess" /\ ~resumed /\ phase = "ended" /\ AllCallsSucceeded) =>
    /\ Len(results_file.rows) = Len(manifest_file.rows)
    /\ DistinctKeys(results_file.rows)
    /\ RowKeys(results_file.rows) = Range(manifest_file.rows)

\* C5: in create_concurrent_llm_requests a task whose every attempt fails
\* with a rate-limit error is retried exactly len(retry_delays) times, that
\* is called len(retry_delays) + 1 times, and is then recorded as failed.
C5_RetrySequence ==
  \A i \in Tasks :
    (script = "experiment" /\ behaviour[Index(i)] = "rate_always") =>
      /\ calls[i] <= Len(retry_delays) + 1
      /\ pc[i] = "done" =>
           /\ calls[i] = Len(retry_delays) + 1
           /\ attempt[i] = Len(retry_delays)
           /\ outcome[i] = [result |-> NoText, error |-> RateLimitError]

\* a task has exhausted its retries on rate-limit errors
C5_Witness ==
  \E i \in Tasks :
    /\ script = "experiment"
    /\ behaviour[Index(i)] = "rate_always"
    /\ pc[i] = "done"
    /\ calls[i] = Len(retry_delays) + 1

\* C6 as claimed: a task whose call fails with an error that is not of the
\* rate-limit class is recorded as failed after exactly one remote call.
C6_NoRetryOnOtherError ==
  \A i \in Tasks :
    (script = "experiment" /\ behaviour[Index(i)] = "other_always"
       /\ pc[i] = "done") =>
      /\ calls[i] = 1
      /\ outcome[i].error # None

\* C6 as amended: errors are not classified; a task whose calls fail with an
\* error that is not of the rate-limit class is retried like any other, and
\* is recorded as failed only after len(retry_delays) + 1 calls have raised.
C6_EveryErrorRetried ==
  \A i \in Tasks :
    script = "experiment" =>
      /\ (behaviour[Index(i)] = "other_always" /\ pc[i] = "done") =>
           /\ calls[i] = Len(retry_delays) + 1
           /\ outcome[i] = [result |-> NoText, error |-> OtherError]
      /\ (pc[i] = "done" /\ outcome[i].error # None) =>
           calls[i] = Len(retry_delays) + 1

\* a task that only ever got a non-rate-limit error has been retried
C6_Witness ==
  \E i \in Tasks :
    /\ script = "experiment"
    /\ behaviour[Index(i)] = "other_always"
    /\ pc[i] = "done"
    /\ calls[i] > 1

\* C7: a task's permanent failure never aborts the batch: every task that
\* returns has the outcome its own calls give it, whatever the other tasks
\* do; the dispatch ends only when every task has returned; the failure is
\* one failed outcome and is counted.
ExpectedOutcome(s, b) ==
  IF s = "assess"
  THEN CASE b = "ok"           -> [result |-> TextProficient, error |-> None]
         [] b = "noformat"     -> [result |-> TextNoFormat, error |-> None]
         [] b = "other_always" -> [result |-> TextFailed, error |-> OtherError]
  ELSE CASE b \in {"ok", "rate_once"} -> [result |-> TextProficient, error |-> None]
         [] b = "rate_always"  -> [result |-> NoText, error |-> RateLimitError]
         [] b = "other_always" -> [result |-> NoText, error |-> OtherError]

C7_FailureIsolated ==
  /\ \A i \in Tasks :
       pc[i] = "done" => outcome[i] = ExpectedOutcome(script, behaviour[Index(i)])
  /\ phase \in {"phase4", "ended"} => \A i \in Tasks : pc[i] = "done"
  /\ (script = "assess" /\ phase \in {"dispatch", "phase4", "ended"}) =>
       completed_count = Cardinality({i \in Tasks : pc[i] = "done"})
  /\ (script = "assess" /\ phase = "ended") =>
       \A i \in Tasks :
         ResultRecord(all_requests[i].context, outcome[i].result)
           \in Range(results_file.rows)

\* the dispatch has ended with a failed task next to a succeeded one
C7_Witness ==
  /\ phase = "ended"
  /\ \E i, j \in Tasks :
       /\ behaviour[Index(i)] \in {"rate_always", "other_always"}
       /\ outcome[i].error # None
       /\ behaviour[Index(j)] = "ok"
       /\ outcome[j] = [result |-> TextProficient, error |-> None]

\* C8: in the assess_mastery dispatch, each time an appended outcome brings
\* the batch to BATCH_SIZE, exactly BATCH_SIZE new rows (the batch) are in
\* the results store and the batch is empty before the next outcome is
\* appended; below the threshold nothing is written.
LastRows(rows, n) == SubSeq(rows, Len(rows) - n + 1, Len(rows))
RowsOfRun == IF is_first_batch THEN <<>> ELSE results_file.rows
C8_FlushAtThreshold ==
  [][(script = "assess" /\ phase = "dispatch"
        /\ completed_count' = completed_count + 1) =>
       IF Len(batch_results) + 1 >= BATCH_SIZE
       THEN /\ Len(batch_results) + 1 = BATCH_SIZE
            /\ batch_results' = <<>>
            /\ Len(results_file'.rows) = Len(RowsOfRun) + BATCH_SIZE
            /\ SubSeq(results_file'.rows, 1, Len(RowsOfRun)) = RowsOfRun
            /\ SubSeq(LastRows(results_file'.rows, BATCH_SIZE), 1,
                      Len(batch_results)) = batch_results
       ELSE /\ Len(batch_results') = Len(batch_results) + 1
            /\ results_file' = results_file]_vars

\* a flush at the threshold has happened while a task is still to complete
C8_Witness ==
  /\ script = "assess"
  /\ phase = "dispatch"
  /\ completed_count = BATCH_SIZE
  /\ batch_results = <<>>
  /\ Len(results_file.rows) >= BATCH_SIZE
  /\ \E i \in Tasks : pc[i] = "calling"

\* C9: when a flush of the batch fails, the batch contents are retained in
\* memory: the batch is never emptied unless its records were written.
C9_BatchRetainedOnFailure ==
  [][(script = "assess" /\ phase = "dispatch"
        /\ phase' \in {"dispatch", "phase4"}
        /\ batch_results # <<>> /\ batch_results' = <<>>) =>
       \E k \in 0..1 :
         /\ Len(results_file'.rows) >= Len(batch_results) + k
         /\ SubSeq(results_file'.rows,
                   Len(results_file'.rows) - k - Len(batch_results) + 1,
                   Len(results_file'.rows) - k) = batch_results]_vars

\* C10: when the dispatch phase has ended, normally or by an interruption,
\* every outcome that was held in the batch has been flushed: the record of
\* every task that returned is in the results store.
DispatchShutDown ==
  \/ phase = "aborted"
  \/ phase = "phase4" /\ p4.i = 1
C10_FlushedAtShutdown ==
  (script = "assess" /\ DispatchShutDown) =>
    \A i \in Tasks :
      pc[i] = "done" =>
        ResultRecord(all_requests[i].context, outcome[i].result)
          \in Range(results_file.rows)

\* C11: with a spread duration S > 0 and n pending tasks, task i (counted
\* from 0) is not admitted to the semaphore before i * S / n seconds have
\* elapsed since the dispatch started, and a task that is still serving its
\* spread delay holds no concurrency slot.
C11_SpreadBeforeAdmission ==
  phase = "dispatch" =>
    /\ \A i \in Tasks :
         pc[i] \in {"calling", "backoff", "done"} =>
           now * Len(all_requests) >= (i - 1) * spread_duration
    /\ sem = concurrency - Cardinality({i \in Tasks : Admitted(i)})

\* the last task has been admitted after its delay, while it could not have
\* been admitted one second earlier
C11_Witness ==
  /\ spread_duration > 0
  /\ Len(all_requests) > 1
  /\ pc[Len(all_requests)] = "calling"
  /\ (now - 1) * Len(all_requests) < (Len(all_requests) - 1) * spread_duration

\* C12: in generate_tutoring_content the number of remote calls in flight
\* (calls made by generate_tutoring_for_single_kc that have not returned)
\* never exceeds the --concurrency limit.
C12_TutoringCallsBounded ==
  script = "tutoring" =>
    Cardinality({k \in TaskIds : kc_pc[k] = "calling"}) <= concurrency

\* C13: a concurrency limit of 0 is rejected as a configuration error before
\* any task is dispatched: with the limit 0 no task coroutine is created and
\* no dispatch is entered.
C13_ZeroLimitRejected ==
  concurrency = 0 =>
    /\ phase # "dispatch"
    /\ \A i \in TaskIds : pc[i] = "none"

\* C14: in a run of assess_mastery that builds a manifest, the complete
\* manifest is in the manifest file before the first remote call is made,
\* and a run that finds no results yet (as after an interruption between the
\* manifest's construction and the dispatch) resolves every manifest row as
\* pending, in manifest order.
C14_ManifestBeforeDispatch ==
  script = "assess" =>
    /\ (\E i \in TaskIds : calls[i] > 0 \/ pc[i] # "none") =>
         manifest_file = [exists |-> TRUE, rows |-> ManifestRows]
    /\ (phase = "ready" /\ results_file.rows = <<>>) => all_requests = Requests

\* the run after an interruption that came before any call returned has
\* resolved the full pending set from the manifest the first run left
C14_Witness ==
  /\ script = "assess"
  /\ resumed
  /\ phase = "ready"
  /\ ~results_file.exists
  /\ \A i \in TaskIds : behaviour[i] = "undecided"
  /\ manifest_file.exists
  /\ all_requests = Requests

\* C15: the manifest is write-once: no step of any run writes the manifest
\* file once it exists, whatever the results store holds and whatever the
\* outcome of loading it is.
C15_ManifestWriteOnce ==
  [][manifest_file.exists =>
       /\ ~GenerateManifest
       /\ manifest_file' = manifest_file]_vars

\* C16: the results store is append-only: every step of a run, and of the
\* run after it, leaves the rows already in the store in place, so the row
\* count never decreases and the file, once created, stays.
C16_StoreAppendOnly ==
  [][/\ Len(results_file'.rows) >= Len(results_file.rows)
     /\ SubSeq(results_file'.rows, 1, Len(results_file.rows)) = results_file.rows
     /\ results_file.exists => results_file'.exists]_vars

\* the second run has appended to the rows the first run left
C16_Witness ==
  /\ resumed
  /\ phase = "dispatch"
  /\ batch_results = <<>>
  /\ completed_count > 0
  /\ Len(results_file.rows) > MaxTasks

\* C17: in run_experiment, on_student_complete is invoked exactly once for
\* every student that has at least one request, only after all of the
\* student's requests have reached a terminal state, and with exactly that
\* student's outcomes, one per request.
RequestsOf(student_id) ==
  {i \in Tasks : all_requests[i].context.student_id = student_id}
InvocationsFor(student_id) ==
  {n \in 1..Len(on_student_complete_calls) :
     on_student_complete_calls[n].student_id = student_id}
RecordsOf(k) ==
  {n \in 1..Len(results_file.rows) : KeyOfRow(results_file.rows[n]) = k}
LatestRecordDone(k) ==
  /\ RecordsOf(k) # {}
  /\ LET latest == CHOOSE n \in RecordsOf(k) : \A m \in RecordsOf(k) : m <= n
     IN IsCompletedRow(ReadCsv(results_file.rows)[latest])
C18_LatestRecordDecides ==
  phase \in {"ready", "ended"} =>
    /\ PendingKeys = {k \in Range(manifest_file.rows) : ~LatestRecordDone(k)}
    /\ \A m, n \in 1..Len(all_requests) :
         all_requests[m].context = all_requests[n].context => m = n

\* C19: in generate_tutoring_content's resume check a stored record counts
\* as done only if its tutoring_content is not empty: a pair whose records
\* are all blank is not among the processed pairs, and its student is
\* pending in the next run.
HasContentRecord(k) ==
  \E n \in 1..Len(results_file.rows) :
    /\ KeyOfRow(results_file.rows[n]) = k
    /\ results_file.rows[n].tutoring_content # <<"">>
C19_BlankRecordPending ==
  (script = "tutoring" /\ resumed /\ phase \in {"ready", "ended"}) =>
    /\ \A k \in done_pairs : HasContentRecord(k)
    /\ \A i \in TaskIds :
         ~HasContentRecord(KeyOf(i)) =>
           \E n \in 1..Len(all_requests) :
             all_requests[n].context.student_id = KeyOf(i).student_id

\* C20: in assess_mastery a record persisted for a failed call (raw
\* response LLM_CALL_FAILED, parsed mastery_level N/A) is treated as done by
\* the next run's pending-set resolution: its task is not pending again.
C20_FailedRecordDone ==
  (script = "assess" /\ resumed /\ phase \in {"ready", "ended"}) =>
    \A i \in TaskIds :
      (/\ behaviour[i] = "other_always"
       /\ ResultRecord(KeyOf(i), TextFailed) \in Range(results_file.rows)) =>
        KeyOf(i) \notin PendingKeys

\* C21: the pending list of load_request_manifest keeps manifest order: of
\* two pending tasks the one earlier in the manifest is earlier in the list,
\* and the spread delays are assigned by position in this list, so a task is
\* not admitted before the delay of its position has elapsed.
C21_PendingInManifestOrder ==
  (script = "assess" /\ phase \in {"ready", "dispatch"}) =>
    /\ \A n \in 1..Len(all_requests) :
         /\ all_requests[n].index \in 1..Len(manifest_file.rows)
         /\ all_requests[n].context = manifest_file.rows[all_requests[n].index]
    /\ \A m, n \in 1..Len(all_requests) :
         m < n => all_requests[m].index < all_requests[n].index
    /\ phase = "dispatch" =>
         \A n \in 1..Len(all_requests) :
           pc[n] \in {"calling", "done"} =>
             now * Len(all_requests) >= (n - 1) * spread_duration

\* a second run whose pending list skips a manifest row has admitted its
\* last task after the delay of the task's position in the list
C21_Witness ==
  /\ script = "assess"
  /\ resumed
  /\ phase = "dispatch"
  /\ spread_duration > 0
  /\ Len(all_requests) = 2
  /\ all_requests[1].index = 1
  /\ all_requests[2].index = 3
  /\ pc[2] = "calling"

C23_DispatchTerminates ==
  (phase = "dispatch" /\ concurrency >= 1) ~>
    (/\ phase \in {"step3", "phase4"}
     /\ \A i \in Tasks : pc[i] = "done" /\ calls[i] >= 1
     /\ sem = concurrency)

\* a dispatch of more tasks than slots has completed, one task through its
\* retries, and every slot is free again
C23_Witness ==
  /\ script = "experiment"
  /\ phase = "step3"
  /\ concurrency = 1
  /\ Len(all_requests) = MaxTasks
  /\ \E i \in Tasks : attempt[i] = Len(retry_delays)
  /\ sem = concurrency

\* C24: a task is never counted done without completing: every record in
\* the batch or in the results store is the record of a task whose remote
\* call has returned or raised, in every interleaving and also when the run
\* is interrupted with calls in flight.
RecordOfCompletedCall(row) ==
  \E i \in TaskIds :
    /\ KeyOf(i) = KeyOfRow(row)
    /\ behaviour[i] # "undecided"
    /\ script = "assess" =>
         row = ResultRecord(KeyOf(i), ExpectedOutcome(script, behaviour[i]).result)
C24_RecordOnlyAfterCall ==
  script \in {"assess", "tutoring"} =>
    \A row \in Range(batch_results) \cup Range(results_file.rows) :
      RecordOfCompletedCall(row)

\* the run was interrupted with a call in flight after another task's
\* record had been saved
C24_Witness ==
  /\ phase = "aborted"
  /\ results_file.rows # <<>>
  /\ \E i \in TaskIds : pc[i] = "calling" /\ behaviour[i] = "undecided"

\* C25: in the assess_mastery dispatch the batch buffer and the completed
\* counter are changed one task at a time: no outcome is lost or written
\* twice by interleaved tasks (the rows written by the run followed by the
\* batch hold the record of every returned task exactly once), and the
\* counter equals the number of tasks that reached a terminal state, also
\* when the dispatch ends.
DoneTasks == {i \in Tasks : pc[i] = "done"}
RecordedOnce(i, records) ==
  Cardinality({n \in 1..Len(records) :
                 KeyOfRow(records[n]) = all_requests[i].context}) = 1
C25_NoLostOrDoubleOutcome ==
  (script = "assess" /\ ~resumed
     /\ (phase = "dispatch" \/ (phase = "phase4" /\ p4.i = 1))) =>
    LET records == results_file.rows \o batch_results IN
      /\ completed_count = Cardinality(DoneTasks)
      /\ Len(records) = Cardinality(DoneTasks)
      /\ \A i \in DoneTasks :
           /\ RecordedOnce(i, records)
           /\ ResultRecord(all_requests[i].context, outcome[i].result)
                \in Range(records)
      /\ phase = "phase4" => completed_count = Len(all_requests)

\* every task has returned, some records are already written and one is
\* still in the batch
C25_Witness ==
  /\ script = "assess"
  /\ ~resumed
  /\ phase = "dispatch"
  /\ completed_count = MaxTasks
  /\ Len(results_file.rows) = BATCH_SIZE
  /\ Len(batch_results) = MaxTasks - BATCH_SIZE

\* C26: in generate_tutoring_content the result buffer never holds more
\* records than batch_size before it is written: no save writes more than
\* batch_size records, and the buffer left between two completions holds at
\* most batch_size.
C26_BufferWithinBatchSize ==
  [][script = "tutoring" =>
       /\ Len(results_file'.rows) - Len(results_file.rows) <= batch_size
       /\ Len(batch_results') <= batch_size]_vars

\* C27: in run_experiment no on_student_complete callback fires and nothing
\* is written to the results pickles before every request of the pool has
\* reached a terminal state, and an interruption of the dispatch leaves the
\* pickles as they were, with no callback made.
C27_NothingPersistedBeforeAllTerminal ==
  [][script = "experiment" =>
       /\ (phase = "ready" \/ DoneTasks # Tasks) =>
            /\ on_student_complete_calls' = on_student_complete_calls
            /\ results_pkl' = results_pkl
       /\ phase' = "aborted" =>
            /\ on_student_complete_calls' = <<>>
            /\ results_pkl' = results_pkl]_vars
C27_Witness ==
  /\ script = "experiment"
  /\ phase = "aborted"
  /\ DoneTasks # {}
  /\ DoneTasks # Tasks
  /\ results_pkl["baseline"] =
       [exists |-> TRUE, rows |-> StoredResults("baseline")]

\* C28: in create_concurrent_llm_requests a task holds its slot from its
\* admission to its return, backoff sleeps included: the free slots are the
\* limit less the tasks that are calling or sleeping in backoff, and a slot
\* is given back only by a step in which a task returns.
SlotHolders == {i \in Tasks : pc[i] \in {"calling", "backoff"}}
C28_SlotHeldThroughBackoff ==
  [][(script = "experiment" /\ phase = "dispatch") =>
       /\ sem = concurrency - Cardinality(SlotHolders)
       /\ sem' > sem =>
            \E i \in Tasks : pc[i] = "calling" /\ pc'[i] = "done"]_vars
\* every slot is held by a task sleeping in backoff and a task whose start
\* delay has elapsed cannot be admitted
C28_Witness ==
  /\ script = "experiment"
  /\ phase = "dispatch"
  /\ concurrency = MaxConcurrency
  /\ Cardinality(SlotHolders) = concurrency
  /\ \A i \in SlotHolders : pc[i] = "backoff"
  /\ \E i \in Tasks : pc[i] = "waiting"
  /\ ~CanAcquire(sem)

\* C29: concurrent_user_sys_call_with_retry retries the batch as a whole:
\* when a result of an attempt carries a rate-limit error and retries
\* remain, the call sleeps the next delay of retry_delays and then gives the
\* whole list to the batch call again, so every request is executed once
\* per batch call; the batch call is made at most len(retry_delays) + 1
\* times, and the list returned is that of the last batch call.
RateLimitMessages == {Msg429, MsgRateLimit, MsgTooMany}
CarriesRateLimitError(results) ==
  \E n \in 1..Len(results) : results[n].error \in RateLimitMessages
C29_WholeBatchRetried ==
  [][script = "llm_utils" =>
       /\ (last_call'.kind = "results" /\ batch_calls' # batch_calls
             /\ CarriesRateLimitError(last_call'.results) /\ RetriesRemain)
            => retry_pc' = "sleeping"
       /\ retry_pc = "sleeping" =>
            /\ retry_pc' = "calling"
            /\ slept' = Append(slept, retry_delays_arg[Len(slept) + 1])
       /\ \A r \in 1..requests_len : executions'[r] = batch_calls'
       /\ batch_calls' <= Len(retry_delays_arg) + 1
       /\ Len(slept') = batch_calls' - (IF retry_pc' = "calling" THEN 0 ELSE 1)
       /\ retry_pc' = "returned" =>
            /\ last_call'.kind = "results"
            /\ returned' = last_call'.results]_vars
\* the list is returned by the last possible attempt, after an attempt in
\* which one request succeeded and the other was rate limited
C29_Witness ==
  /\ script = "llm_utils"
  /\ retry_pc = "returned"
  /\ requests_len = MaxRequests
  /\ Len(retry_delays_arg) = MaxRetries
  /\ batch_calls = MaxRetries + 1
  /\ \A r \in 1..requests_len : executions[r] = MaxRetries + 1
  /\ returned[1].error = NoError
  /\ returned[2].error = MsgRateLimit

\* C30: in main's loop over the modes, a mode whose selected students all
\* have stored results adds these to the combined results labelled with
\* the actual mode of that same mode, at every position of the loop, the
\* first included.
NothingRemains ==
  /\ script = "experiment"
  /\ phase = "modes"
  /\ mode_pos <= Len(experiment_modes)
  /\ existing_results_df.exists
  /\ remaining_student_ids = <<>>
C30_SkippedModeOwnLabel ==
  [][NothingRemains =>
       all_experiments_results' =
         Append(all_experiments_results,
                Labelled(existing_results_df.rows,
                         ActualModeOf(exp_mode, has_mastery,
                                      has_tutoring)))]_vars

====
